---- MODULE Spec2Model ----
(***************************************************************************)
(* Model of setup.py: the provisioning pipeline of the audio classifier.   *)
(* One run of the script is the sequence of steps of main(); the script    *)
(* can be run again on the project directory the previous run left, and    *)
(* the operator may edit models/classes.json between two runs.             *)
(*                                                                         *)
(* File and label names are sequences of character codes, so that          *)
(* sorted() is the lexicographic string order Python uses.  A model file   *)
(* name is a pair <<stem, extension>>; file contents are small numbers.    *)
(*                                                                         *)
(* Exceptions modelled: shutil.copy2 into a directory that does not exist, *)
(* json.load of a summary.json that is not JSON, iterdir() of a test_web   *)
(* that is a plain file, and KeyboardInterrupt between two calls of main.  *)
(* Not modelled: permission and disk errors, a project path that exists as *)
(* a file where a directory is expected, an interruption inside a call.    *)
(***************************************************************************)
EXTENDS Integers, Sequences, FiniteSets, TLC

----------------------------------------------------------------------------
(* Program constants *)

\* FEATURE_TYPES
Cats == <<"mfcc", "mel", "concat">>
CatSet == {Cats[i] : i \in 1..Len(Cats)}

\* expected_folds in verify_models
ExpectedFolds == 5

\* dirs of create_project_structure
ProjectDirs == {"models", "templates", "uploads", "results", "static"}

\* required of check_dependencies
Required == {"flask", "tensorflow", "librosa", "numpy", "pandas"}

\* the order of the calls in main
MainOrder == <<"check_python_version", "create_project_structure",
               "copy_models", "create_classes_file", "verify_models",
               "create_requirements", "create_readme",
               "check_dependencies", "print_summary">>

\* "clase_ejemplo_" as character codes
ClasePrefix == <<99, 108, 97, 115, 101, 95, 101, 106, 101, 109, 112, 108, 111, 95>>

\* the example list of create_classes_file: clase_ejemplo_1, _2, _3
Placeholder == <<ClasePrefix \o <<49>>, ClasePrefix \o <<50>>, ClasePrefix \o <<51>>>>

----------------------------------------------------------------------------
(* Bounds of the explored inputs *)

\* number of candidate subdirectory names of test_web
MaxSubdirs == 2

----------------------------------------------------------------------------
(* Values of the file system *)

EmptyFiles == [n \in {} |-> 0]

NoDir == [exists |-> FALSE, files |-> EmptyFiles]

NoSummary == [exists |-> FALSE, parses |-> FALSE, hasClasses |-> FALSE, classes |-> <<>>]

NoMetrics == [exists |-> FALSE, content |-> 0]

NoCat == [exists |-> FALSE, models |-> NoDir, summary |-> NoSummary, metrics |-> NoMetrics]

EmptyCat == [NoCat EXCEPT !.exists = TRUE]

\* glob("*.h5")
IsH5(n) == n[2] = "h5"

H5Files(dir) == {n \in DOMAIN dir.files : IsH5(n)}

\* a directory holding fold_1.h5 .. fold_k.h5 with content c, and the other files
FoldDir(k, c, others) ==
    [exists |-> TRUE,
     files |-> [n \in {<<i, "h5">> : i \in 1..k} \cup others |-> c]]

\* a summary.json that is a JSON object with a "classes" field
SummaryWith(cls) == [exists |-> TRUE, parses |-> TRUE, hasClasses |-> TRUE, classes |-> cls]

\* a summary.json that is a JSON object without a "classes" field
SummaryPlain == [exists |-> TRUE, parses |-> TRUE, hasClasses |-> FALSE, classes |-> <<>>]

\* a summary.json that is not valid JSON
SummaryBad == [exists |-> TRUE, parses |-> FALSE, hasClasses |-> FALSE, classes |-> <<>>]

Metrics(c) == [exists |-> TRUE, content |-> c]

----------------------------------------------------------------------------
(* check_python_version *)

Compatible(v) == v[1] = 3 /\ v[2] >= 8

----------------------------------------------------------------------------
(* copy_models *)

\* variant of CopyFiles: a file already in the destination is kept and not counted
CopyFiles_SkipExisting(source_models, dest_files) ==
    LET h5 == H5Files(source_models)
        new == h5 \ DOMAIN dest_files
    IN [files |-> [n \in DOMAIN dest_files \cup h5 |->
                      IF n \in new THEN source_models.files[n] ELSE dest_files[n]],
        n |-> Cardinality(new)]

\* the loop over source_models.glob("*.h5"): shutil.copy2 of every model
\* file under its own name, overwriting, one count per file copied
CopyFiles(source_models, dest_files) ==
    LET h5 == H5Files(source_models)
    IN [files |-> [n \in DOMAIN dest_files \cup h5 |->
                      IF n \in h5 THEN source_models.files[n] ELSE dest_files[n]],
        n |-> Cardinality(h5)]

\* one iteration of the loop over FEATURE_TYPES; acc is the project model
\* store, copied_count and whether an exception has left the loop
CopyCategory(s, feature, acc) ==
    LET source_dir == s.cat[feature]
        dest_dir == acc.store[feature]
        cp == CopyFiles(source_dir.models, dest_dir.models.files)
        \* dest_models.mkdir(parents=True, exist_ok=True) and the model files
        d1 == IF source_dir.models.exists
              THEN [dest_dir EXCEPT !.exists = TRUE,
                                    !.models = [exists |-> TRUE, files |-> cp.files]]
              ELSE dest_dir
        count == IF source_dir.models.exists THEN acc.count + cp.n ELSE acc.count
        \* shutil.copy2 into dest_dir fails when dest_dir does not exist
        raise1 == source_dir.summary.exists /\ ~d1.exists
        d2 == IF source_dir.summary.exists /\ ~raise1
              THEN [d1 EXCEPT !.summary = source_dir.summary] ELSE d1
        raise2 == ~raise1 /\ source_dir.metrics.exists /\ ~d2.exists
        d3 == IF source_dir.metrics.exists /\ ~raise1 /\ ~raise2
              THEN [d2 EXCEPT !.metrics = source_dir.metrics] ELSE d2
    IN IF acc.raised THEN acc
       ELSE IF ~(s.root /\ source_dir.exists) THEN acc
       ELSE [store |-> [acc.store EXCEPT ![feature] = d3],
             count |-> count,
             raised |-> raise1 \/ raise2]

RECURSIVE CopyLoop(_, _, _)
CopyLoop(s, i, acc) ==
    IF i > Len(Cats) THEN acc
    ELSE CopyLoop(s, i + 1, CopyCategory(s, Cats[i], acc))

\* variant of CopyModelsResult: the destination subtrees are made before the
\* training directory is looked at
CopyModelsResult_EagerDirs(s, store) ==
    LET made == [c \in CatSet |->
                    [store[c] EXCEPT !.exists = TRUE, !.models.exists = TRUE]]
        r == CopyLoop(s, 1, [store |-> made, count |-> 0, raised |-> FALSE])
    IN IF ~s.root
       THEN [store |-> made, count |-> 0, raised |-> FALSE, ret |-> FALSE]
       ELSE [store |-> r.store, count |-> r.count, raised |-> r.raised,
             ret |-> r.count > 0]

\* copy_models: the project model store it leaves, copied_count, whether it
\* raised, and its return value when it returns
CopyModelsResult(s, store) ==
    IF ~s.root
    THEN [store |-> store, count |-> 0, raised |-> FALSE, ret |-> FALSE]
    ELSE LET r == CopyLoop(s, 1, [store |-> store, count |-> 0, raised |-> FALSE])
         IN [store |-> r.store, count |-> r.count, raised |-> r.raised,
             ret |-> r.count > 0]

----------------------------------------------------------------------------
(* extract_classes_from_training and create_classes_file *)

\* Python's order of two strings
RECURSIVE LexLess(_, _)
LexLess(a, b) ==
    IF a = <<>> THEN b # <<>>
    ELSE IF b = <<>> THEN FALSE
    ELSE IF a[1] < b[1] THEN TRUE
    ELSE IF a[1] > b[1] THEN FALSE
    ELSE LexLess(Tail(a), Tail(b))

\* sorted() of the names of a directory listing
RECURSIVE SortedSeq(_)
SortedSeq(S) ==
    IF S = {} THEN <<>>
    ELSE LET m == CHOOSE x \in S : \A y \in S \ {x} : LexLess(x, y)
         IN <<m>> \o SortedSeq(S \ {m})

\* variant of MetaLoop: the loop goes on after a 'classes' field was found, so
\* the last category that has one decides
RECURSIVE MetaLoop_NoBreak(_, _)
MetaLoop_NoBreak(s, i) ==
    IF i > Len(Cats) THEN [raised |-> FALSE, classes |-> <<>>]
    ELSE LET meta == s.cat[Cats[i]].summary
             rest == MetaLoop_NoBreak(s, i + 1)
         IN IF ~(s.root /\ s.cat[Cats[i]].exists /\ meta.exists) THEN rest
            ELSE IF ~meta.parses THEN [raised |-> TRUE, classes |-> <<>>]
            ELSE IF meta.hasClasses /\ ~rest.raised /\ rest.classes = <<>>
                 THEN [raised |-> FALSE, classes |-> meta.classes]
            ELSE rest

\* the loop over FEATURE_TYPES reading summary.json: json.load raises on a
\* file that is not JSON, and the first 'classes' field found ends the loop
RECURSIVE MetaLoop(_, _)
MetaLoop(s, i) ==
    IF i > Len(Cats) THEN [raised |-> FALSE, classes |-> <<>>]
    ELSE LET meta == s.cat[Cats[i]].summary
         IN IF ~(s.root /\ s.cat[Cats[i]].exists /\ meta.exists) THEN MetaLoop(s, i + 1)
            ELSE IF ~meta.parses THEN [raised |-> TRUE, classes |-> <<>>]
            ELSE IF meta.hasClasses THEN [raised |-> FALSE, classes |-> meta.classes]
            ELSE MetaLoop(s, i + 1)

\* variant of ExtractClasses: the metadata is asked first and test_web only
\* when it gives nothing
ExtractClasses_MetadataFirst(s) ==
    LET m == MetaLoop(s, 1)
    IN IF m.raised \/ m.classes # <<>> THEN m
       ELSE IF s.root /\ s.testWeb.kind = "dir"
            THEN [raised |-> FALSE, classes |-> SortedSeq(s.testWeb.dirs)]
       ELSE m

\* extract_classes_from_training: test_web_dir.exists() holds of a plain file
\* too, and iterdir() raises on it
ExtractClasses(s) ==
    IF s.root /\ s.testWeb.kind # "absent"
    THEN IF s.testWeb.kind = "file"
         THEN [raised |-> TRUE, classes |-> <<>>]
         ELSE [raised |-> FALSE, classes |-> SortedSeq(s.testWeb.dirs)]
    ELSE MetaLoop(s, 1)

\* create_classes_file: what it writes to models/classes.json, or that it raised
ClassesFileResult(s, modelsDirExists) ==
    LET r == ExtractClasses(s)
        classes == IF r.classes = <<>> THEN Placeholder ELSE r.classes
    IN IF r.raised \/ ~modelsDirExists
       THEN [raised |-> TRUE, classes |-> <<>>]
       ELSE [raised |-> FALSE, classes |-> classes]

----------------------------------------------------------------------------
(* verify_models *)

\* variant of VerifyCategory: more than expected_folds files are asked for
VerifyCategory_Strict(store, feature) ==
    LET models_dir == store[feature].models
    IN IF ~models_dir.exists THEN "invalid"
       ELSE IF Cardinality(H5Files(models_dir)) > ExpectedFolds THEN "valid"
       ELSE "invalid"

\* one iteration of the loop of verify_models
VerifyCategory(store, feature) ==
    LET models_dir == store[feature].models
    IN IF ~models_dir.exists THEN "invalid"
       ELSE IF Cardinality(H5Files(models_dir)) >= ExpectedFolds THEN "valid"
       ELSE "invalid"

\* the loop of verify_models; acc holds the mark printed for each category
\* and all_valid
RECURSIVE VerifyLoop(_, _, _)
VerifyLoop(store, i, acc) ==
    IF i > Len(Cats) THEN acc
    ELSE LET mark == VerifyCategory(store, Cats[i])
         IN VerifyLoop(store, i + 1,
                       [flags |-> [acc.flags EXCEPT ![Cats[i]] = mark],
                        all_valid |-> IF mark = "valid" THEN acc.all_valid ELSE FALSE])

\* verify_models
VerifyResult(store) ==
    VerifyLoop(store, 1, [flags |-> [c \in CatSet |-> "unexamined"], all_valid |-> TRUE])

----------------------------------------------------------------------------
(* the __main__ block *)

\* variant of ExitCodeOf: an interruption is reported as a failure
ExitCodeOf_InterruptFails(exc) ==
    IF exc = "none" THEN 0 ELSE 1

\* the exit status for what main() raised
ExitCodeOf(exc) ==
    IF exc = "KeyboardInterrupt" THEN 0
    ELSE IF exc = "Exception" THEN 1
    ELSE IF exc = "SystemExit" THEN 1
    ELSE 0

----------------------------------------------------------------------------
(* The explored source trees and project directories *)

\* the i-th candidate name of a subdirectory of test_web: "b", "Z", "ab", "a", ...
SubdirName(i) ==
    IF i = 1 THEN <<98>>
    ELSE IF i = 2 THEN <<90>>
    ELSE IF i = 3 THEN <<97, 98>>
    ELSE IF i = 4 THEN <<97>>
    ELSE <<97, 96 + i>>

SubdirNames == {SubdirName(i) : i \in 1..MaxSubdirs}

\* a plain file lying in test_web
StrayFile == <<46, 107>>

\* the 'classes' list of each category's summary.json: unsorted and with a
\* repeated label, so that sorting, merging or deduplicating would show
ClassesOf(c) ==
    IF c = "mfcc" THEN <<<<98>>, <<97>>, <<98>>>>
    ELSE IF c = "mel" THEN <<<<99>>>>
    ELSE <<<<97>>, <<100>>>>

\* a label list typed in by the operator
ManualLabels == <<<<109>>>>

NoTestWeb == [kind |-> "absent", dirs |-> {}, files |-> {}]

\* a source models directory one fold short, with a text file beside the folds
FewFolds == FoldDir(ExpectedFolds - 1, 1, {<<1, "txt">>})

FullFolds == FoldDir(ExpectedFolds, 1, {})

\* category trees that vary what there is to copy
CopyTrees(c) ==
    {NoCat} \cup
    {[exists |-> TRUE, models |-> m, summary |-> sm, metrics |-> mt] :
        m \in {NoDir, FewFolds, FullFolds},
        sm \in {NoSummary, SummaryWith(ClassesOf(c))},
        mt \in {NoMetrics, Metrics(1)}}

\* the trees tried for the last category, while the first two take every tree
LastTrees(c) ==
    {NoCat,
     [exists |-> TRUE, models |-> NoDir, summary |-> SummaryWith(ClassesOf(c)),
      metrics |-> Metrics(1)],
     [exists |-> TRUE, models |-> FewFolds, summary |-> NoSummary, metrics |-> NoMetrics],
     [exists |-> TRUE, models |-> FullFolds, summary |-> SummaryWith(ClassesOf(c)),
      metrics |-> Metrics(1)]}

\* category trees that vary what summary.json holds
LabelTrees(c) ==
    {[exists |-> TRUE, models |-> FullFolds, summary |-> sm,
      metrics |-> NoMetrics] :
        sm \in {NoSummary, SummaryBad, SummaryPlain, SummaryWith(<<>>),
                SummaryWith(ClassesOf(c))}}

TestWebs ==
    {NoTestWeb, [kind |-> "file", dirs |-> {}, files |-> {}]} \cup
    {[kind |-> "dir", dirs |-> d, files |-> f] :
        d \in SUBSET SubdirNames, f \in {{}, {StrayFile}}}

Sources ==
    {[root |-> FALSE, cat |-> [c \in CatSet |-> NoCat], testWeb |-> NoTestWeb]}
    \cup {[root |-> TRUE, cat |-> t, testWeb |-> NoTestWeb] :
            t \in [mfcc : CopyTrees("mfcc"), mel : CopyTrees("mel"),
                   concat : LastTrees("concat")]}
    \cup {[root |-> TRUE, cat |-> t, testWeb |-> w] :
            t \in [mfcc : LabelTrees("mfcc"), mel : LabelTrees("mel"),
                   concat : LabelTrees("concat")],
            w \in TestWebs}

NoClassesFile == [exists |-> FALSE, content |-> <<>>]

\* a project directory the script has never run in
Fresh ==
    [dirs |-> {}, store |-> [c \in CatSet |-> NoCat], classesFile |-> NoClassesFile,
     files |-> {}]

\* a project directory with older content: models/mfcc populated (an older
\* fold_1.h5, a fold_6.h5, a text file), models/mel empty, models/concat
\* missing, a hand-written classes.json
Stale ==
    [dirs |-> ProjectDirs,
     store |-> [c \in CatSet |->
        IF c = "mfcc"
        THEN [exists |-> TRUE,
              models |-> [exists |-> TRUE,
                          files |-> [n \in {<<1, "h5">>, <<ExpectedFolds + 1, "h5">>, <<2, "txt">>} |-> 0]],
              summary |-> SummaryWith(<<<<120>>>>),
              metrics |-> Metrics(0)]
        ELSE IF c = "mel" THEN EmptyCat
        ELSE NoCat],
     classesFile |-> [exists |-> TRUE, content |-> ManualLabels],
     files |-> {}]

Projects == {Fresh, Stale}

\* sys.version_info (major, minor) of the runtimes tried
Versions == {<<2, 7>>, <<3, 7>>, <<3, 8>>, <<4, 0>>}

NoVersion == <<0, 0>>

----------------------------------------------------------------------------
(* State *)

VARIABLES
    src,            \* the training directory TRAINING_DIR (read only)
    dirs,           \* the directories of PROJECT_DIR that exist
    store,          \* models/<category> for each category
    classesFile,    \* models/classes.json
    files,          \* the other files written into PROJECT_DIR
    version,        \* sys.version_info read by this run
    pc,             \* the next call of main, or "exited"
    steps,          \* the calls of main made by this run
    raised,         \* what ended main: "none", or the exception
    exitCode,       \* the process exit status (-1 while running)
    copied,         \* copied_count of copy_models
    copyRet,        \* the return value of copy_models
    classesRet,     \* the return value of create_classes_file
    verifyFlags,    \* the mark verify_models printed for each category
    verifyRet,      \* the return value of verify_models
    depsRet,        \* the return value of check_dependencies
    summaryPrinted, \* print_summary has run
    lastCopy        \* what the previous call of copy_models left

project == <<dirs, store, classesFile, files>>
results == <<copied, copyRet, classesRet, verifyFlags, verifyRet, depsRet, summaryPrinted>>
vars == <<src, dirs, store, classesFile, files, version, pc, steps, raised, exitCode,
          copied, copyRet, classesRet, verifyFlags, verifyRet, depsRet,
          summaryPrinted, lastCopy>>

NoFlags == [c \in CatSet |-> "unexamined"]

StartRun ==
    /\ version = NoVersion
    /\ pc = MainOrder[1]
    /\ steps = <<>>
    /\ raised = "none"
    /\ exitCode = -1
    /\ copied = 0
    /\ copyRet = "none"
    /\ classesRet = "none"
    /\ verifyFlags = NoFlags
    /\ verifyRet = "none"
    /\ depsRet = "none"
    /\ summaryPrinted = FALSE

Init ==
    /\ src \in Sources
    /\ \E p \in Projects :
          /\ dirs = p.dirs
          /\ store = p.store
          /\ classesFile = p.classesFile
          /\ files = p.files
    /\ lastCopy = [valid |-> FALSE, store |-> [c \in CatSet |-> NoCat], count |-> 0]
    /\ StartRun

----------------------------------------------------------------------------
(* Steps of main *)

PyBool(b) == IF b THEN "True" ELSE "False"

\* the call after step name in main
After(name) ==
    LET i == CHOOSE k \in 1..Len(MainOrder) : MainOrder[k] = name
    IN MainOrder[i + 1]

\* main calls the step name
Call(name) ==
    /\ pc = name
    /\ steps' = Append(steps, name)

\* main is left by exception exc, or returns when exc = "none"
Exit(exc) ==
    /\ pc' = "exited"
    /\ raised' = exc
    /\ exitCode' = ExitCodeOf(exc)

Continue(name) ==
    /\ pc' = After(name)
    /\ UNCHANGED <<raised, exitCode>>

CheckPythonVersion ==
    /\ Call("check_python_version")
    /\ \E v \in Versions :
          /\ version' = v
          /\ IF Compatible(v) THEN Continue("check_python_version")
             ELSE Exit("SystemExit")
    /\ UNCHANGED <<src, project, results, lastCopy>>

CreateProjectStructure ==
    /\ Call("create_project_structure")
    /\ dirs' = dirs \cup ProjectDirs
    /\ Continue("create_project_structure")
    /\ UNCHANGED <<src, store, classesFile, files, version, results, lastCopy>>

CopyModels ==
    /\ Call("copy_models")
    /\ LET r == CopyModelsResult(src, store)
       IN /\ store' = r.store
          /\ copied' = r.count
          /\ lastCopy' = [valid |-> TRUE, store |-> r.store, count |-> r.count]
          /\ IF r.raised
             THEN /\ Exit("Exception")
                  /\ UNCHANGED copyRet
             ELSE /\ Continue("copy_models")
                  /\ copyRet' = PyBool(r.ret)
    /\ UNCHANGED <<src, dirs, classesFile, files, version, classesRet, verifyFlags,
                   verifyRet, depsRet, summaryPrinted>>

CreateClassesFile ==
    /\ Call("create_classes_file")
    /\ LET r == ClassesFileResult(src, "models" \in dirs)
       IN IF r.raised
          THEN /\ Exit("Exception")
               /\ UNCHANGED <<classesFile, classesRet>>
          ELSE /\ classesFile' = [exists |-> TRUE, content |-> r.classes]
               /\ classesRet' = "True"
               /\ Continue("create_classes_file")
    /\ UNCHANGED <<src, dirs, store, files, version, copied, copyRet, verifyFlags,
                   verifyRet, depsRet, summaryPrinted, lastCopy>>

VerifyModels ==
    /\ Call("verify_models")
    /\ LET r == VerifyResult(store)
       IN /\ verifyFlags' = r.flags
          /\ verifyRet' = PyBool(r.all_valid)
    /\ Continue("verify_models")
    /\ UNCHANGED <<src, project, version, copied, copyRet, classesRet, depsRet,
                   summaryPrinted, lastCopy>>

CreateRequirements ==
    /\ Call("create_requirements")
    /\ files' = files \cup {"requirements.txt"}
    /\ Continue("create_requirements")
    /\ UNCHANGED <<src, dirs, store, classesFile, version, results, lastCopy>>

CreateReadme ==
    /\ Call("create_readme")
    /\ files' = files \cup {"README.md"}
    /\ Continue("create_readme")
    /\ UNCHANGED <<src, dirs, store, classesFile, version, results, lastCopy>>

CheckDependencies ==
    /\ Call("check_dependencies")
    /\ \E installed \in SUBSET Required :
          LET missing == Required \ installed
          IN depsRet' = PyBool(missing = {})
    /\ Continue("check_dependencies")
    /\ UNCHANGED <<src, project, version, copied, copyRet, classesRet, verifyFlags,
                   verifyRet, summaryPrinted, lastCopy>>

\* the last call of main; main returns and the process ends
PrintSummary ==
    /\ Call("print_summary")
    /\ summaryPrinted' = TRUE
    /\ Exit("none")
    /\ UNCHANGED <<src, project, version, copied, copyRet, classesRet, verifyFlags,
                   verifyRet, depsRet, lastCopy>>

\* the user interrupts the run between two calls of main
Interrupt ==
    /\ pc # "exited"
    /\ Exit("KeyboardInterrupt")
    /\ UNCHANGED <<src, project, version, steps, results, lastCopy>>

----------------------------------------------------------------------------
(* Between two runs *)

\* the operator edits models/classes.json by hand
EditClassesFile ==
    /\ pc = "exited"
    /\ classesFile.exists
    /\ classesFile.content # ManualLabels
    /\ classesFile' = [classesFile EXCEPT !.content = ManualLabels]
    /\ UNCHANGED <<src, dirs, store, files, version, pc, steps, raised, exitCode,
                   results, lastCopy>>

\* the script is run again in the same project directory
Rerun ==
    /\ pc = "exited"
    /\ version' = NoVersion
    /\ pc' = MainOrder[1]
    /\ steps' = <<>>
    /\ raised' = "none"
    /\ exitCode' = -1
    /\ copied' = 0
    /\ copyRet' = "none"
    /\ classesRet' = "none"
    /\ verifyFlags' = NoFlags
    /\ verifyRet' = "none"
    /\ depsRet' = "none"
    /\ summaryPrinted' = FALSE
    /\ UNCHANGED <<src, project, lastCopy>>

Next ==
    \/ CheckPythonVersion
    \/ CreateProjectStructure
    \/ CopyModels
    \/ CreateClassesFile
    \/ VerifyModels
    \/ CreateRequirements
    \/ CreateReadme
    \/ CheckDependencies
    \/ PrintSummary
    \/ Interrupt
    \/ EditClassesFile
    \/ Rerun

Spec == Init /\ [][Next]_vars

TypeOK ==
    /\ pc \in {MainOrder[i] : i \in 1..Len(MainOrder)} \cup {"exited"}
    /\ exitCode \in {-1, 0, 1}
    /\ copied \in Nat

----------------------------------------------------------------------------
(* Properties *)

\* this step is the call of name by main
Did(name) == steps' = Append(steps, name)

SrcCat(c) == src.cat[c]

\* the categories, in declaration order, whose summary.json has a 'classes' field
WithClasses == {i \in 1..Len(Cats) :
                  src.root /\ SrcCat(Cats[i]).exists /\ SrcCat(Cats[i]).summary.exists
                  /\ SrcCat(Cats[i]).summary.hasClasses}

FirstWithClasses == CHOOSE i \in WithClasses : \A j \in WithClasses : i <= j

TestWebAbsent == ~src.root \/ src.testWeb.kind = "absent"

\* w lists the set S in strictly increasing string order
IsSortedListing(w, S) ==
    /\ Len(w) = Cardinality(S)
    /\ {w[i] : i \in 1..Len(w)} = S
    /\ \A i, j \in 1..Len(w) : i < j => LexLess(w[i], w[j])

\* C1: once the version check has passed, a run that the user does not
\* interrupt makes every call of main in order and ends with print_summary.
C1_RunReachesSummary ==
    (pc = "exited" /\ raised \notin {"SystemExit", "KeyboardInterrupt"})
        => (steps = MainOrder /\ summaryPrinted)

\* C2: the exit status is 0 exactly for a run that completed or was
\* interrupted and 1 exactly for a rejected version or an unhandled error; a
\* rejected version ends the run at its first call, the project untouched.
C2_ExitCodes ==
    /\ [](pc = "exited" =>
            /\ (exitCode = 0 <=> raised \in {"none", "KeyboardInterrupt"})
            /\ (exitCode = 1 <=> raised \in {"SystemExit", "Exception"})
            /\ (raised = "none" => summaryPrinted)
            /\ (raised = "SystemExit" <=>
                  (version # NoVersion /\ ~(version[1] = 3 /\ version[2] >= 8)))
            /\ (raised = "SystemExit" => steps = <<"check_python_version">>))
    /\ [][(Did("check_python_version") /\ ~(version'[1] = 3 /\ version'[2] >= 8))
            => (pc' = "exited" /\ exitCode' = 1 /\ UNCHANGED project)]_vars

C2_Witness ==
    /\ pc = "exited" /\ exitCode = 1 /\ raised = "SystemExit"
    /\ version = <<3, 7>> /\ dirs = {} /\ steps = <<"check_python_version">>

\* C3: without the training directory copy_models returns false and leaves
\* the project model store as it was.
C3_NoSourceRoot ==
    [][(Did("copy_models") /\ ~src.root)
         => (copyRet' = "False" /\ store' = store /\ dirs' = dirs /\ pc' # "exited")]_vars

C3_Witness ==
    /\ ~src.root /\ pc = "create_classes_file" /\ copyRet = "False"
    /\ \A c \in CatSet : ~store[c].exists

\* C4: a second call of copy_models on the same training directory leaves the
\* model store the first call left and counts as many files.
C4_CopyIdempotent ==
    [][(Did("copy_models") /\ lastCopy.valid)
         => (store' = lastCopy.store /\ copied' = lastCopy.count)]_vars

\* README.md is written only by a run that is past copy_models, so a run that
\* finds it makes a later call of copy_models
C4_Witness ==
    /\ "README.md" \in files /\ pc = "create_classes_file"
    /\ lastCopy.valid /\ copied = 2 * ExpectedFolds - 1
    /\ store = lastCopy.store

\* C5: copy_models copies summary.json and fold_metrics.csv of every category
\* whose source subtree has them.
C5_SidecarsCopied ==
    [][Did("copy_models")
         => \A c \in CatSet :
               (src.root /\ SrcCat(c).exists) =>
                  /\ (SrcCat(c).summary.exists => store'[c].summary = SrcCat(c).summary)
                  /\ (SrcCat(c).metrics.exists => store'[c].metrics = SrcCat(c).metrics)]_vars

\* C6: with subdirectories in test_web, classes.json is written as their names
\* in sorted order, whatever the summary.json files hold.
C6_TestWebFirst ==
    [][(Did("create_classes_file") /\ src.root /\ src.testWeb.kind = "dir"
          /\ src.testWeb.dirs # {})
         => /\ classesFile'.exists
            /\ IsSortedListing(classesFile'.content, src.testWeb.dirs)]_vars

C6_Witness ==
    /\ pc = "verify_models"
    /\ src.testWeb.kind = "dir" /\ src.testWeb.dirs = {<<98>>, <<90>>}
    /\ src.testWeb.files # {}
    /\ SrcCat("mfcc").summary.hasClasses /\ SrcCat("mfcc").summary.classes # <<>>
    /\ classesFile.content = <<<<90>>, <<98>>>>

C8_AlwaysWrites ==
    [][Did("create_classes_file")
         => /\ classesRet' = "True"
            /\ classesFile'.exists
            /\ classesFile'.content # <<>>
            /\ ((src.root /\ src.testWeb.kind = "dir" => src.testWeb.dirs = {})
                /\ \A i \in WithClasses : SrcCat(Cats[i]).summary.classes = <<>>)
               => classesFile'.content = Placeholder]_vars

\* C9: verify_models marks a category valid exactly when its models directory
\* exists with at least five model files, marks every category, and returns
\* true exactly when all are valid.
C9_Verify ==
    [][Did("verify_models")
         => LET ok(c) == /\ store[c].models.exists
                         /\ Cardinality({n \in DOMAIN store[c].models.files : n[2] = "h5"}) >= 5
            IN /\ \A c \in CatSet : verifyFlags'[c] = IF ok(c) THEN "valid" ELSE "invalid"
               /\ verifyRet' = PyBool(\A c \in CatSet : ok(c))]_vars

C9_Witness ==
    /\ pc = "create_requirements" /\ verifyRet = "False"
    /\ verifyFlags = [mfcc |-> "invalid", mel |-> "valid", concat |-> "invalid"]
    /\ Cardinality(H5Files(store["mfcc"].models)) = 4
    /\ Cardinality(H5Files(store["mel"].models)) = 5

\* C10: after every run that the version check let through and the user did
\* not interrupt, classes.json holds what the training directory gives,
\* whatever it held before.
C10_Rederived ==
    (pc = "exited" /\ raised \notin {"SystemExit", "KeyboardInterrupt"})
        => /\ classesFile.exists
           /\ classesFile.content = ClassesFileResult(src, TRUE).classes

====
